---- MODULE Spec2Model ----
(***************************************************************************)
(* Model of the interaction state machine (InteractionController) and the  *)
(* camera transition engine (CameraController) of Solar-Demo,              *)
(* src/src/interaction/CameraController.js.                                *)
(*                                                                         *)
(* Bodies are numbered 1..NumBodies, 0 stands for null.  Every setTimeout  *)
(* of the controller uses the same delay (1200 ms), so pending callbacks   *)
(* fire in the order they were registered: `timers' is a FIFO queue of at  *)
(* most MaxTimers callbacks.  A                                            *)
(* GSAP tween is killed by the next camera transition, so at most one      *)
(* onComplete is pending: `pendingTween'.  The notification callbacks      *)
(* onStateChange / onBodySelect / onBodyHover are taken to be installed.   *)
(*                                                                         *)
(* The quality control loop (FPSMonitor, QualityManager, src/unnamed/      *)
(* part_002) is a second component with its own specification,            *)
(* QualitySpec: frame times are kept in hundredths of a millisecond and    *)
(* frame rates in tenths of a frame per second.                            *)
(*                                                                         *)
(* Spec sees the pointer only through the body its ray hits.  The pointer  *)
(* tracker (position, velocity, decaying speed) and what it forwards to    *)
(* the selected planet and to the camera are followed in PointerSpec, the  *)
(* camera controller called on its own in CameraSpec, and the frame loop   *)
(* of Engine (src/unnamed/part_000) in EngineSpec.  Pointer positions,     *)
(* velocities and speeds are kept in tenths, as exact fractions.           *)
(***************************************************************************)
EXTENDS Integers, Sequences, FiniteSets, TLC

\* ------------------------------------------------------------------ bounds
NumBodies == 2
MaxTimers == 3
SampleSize == 3
MaxFrames == 62
MaxTicks == 3
MaxPendingFrames == 12

\* --------------------------------------------------------------- constants
GLOBAL == "GLOBAL"
TRANSITION == "TRANSITION"
FOCUS == "FOCUS"
InteractionState == {GLOBAL, TRANSITION, FOCUS}

null == 0
Bodies == 1..NumBodies
BodyOrNull == 0..NumBodies

\* setPerturbation(true, 0.15) stores 0.15, setPerturbation(false) stores 0;
\* strengths are kept in hundredths.
PerturbOn == 15
PerturbOff == 0

\* Planet constructor: perturbStrength = 0.1 until the controller sets it.
PerturbInitial == 10

\* Orbit distance bounds are kept in tenths of a unit.
DefaultMinDistance == 50
DefaultMaxDistance == 5000
Radius(b) == b
FocusMinDistance(b) == 15 * Radius(b)
FocusMaxDistance(b) == 150 * Radius(b)

VARIABLES
    state,            \* InteractionController.state
    selectedBody,     \* InteractionController.selectedBody
    hoveredBody,      \* InteractionController.hoveredBody
    timers,           \* pending setTimeout callbacks, oldest first
    perturbStrength,  \* body -> Planet.perturbStrength (hundredths)
    isTransitioning,  \* CameraController.isTransitioning
    focusedBody,      \* CameraController.focusedBody
    mouseViewEnabled, \* CameraController.mouseViewEnabled
    controlsEnabled,  \* CameraController.controls.enabled
    minDistance,      \* CameraController.controls.minDistance (tenths)
    maxDistance,      \* CameraController.controls.maxDistance (tenths)
    pendingTween,     \* the live target tween whose onComplete is pending
    log,              \* notifications emitted since the last request
    hoverLog,         \* onBodyHover notifications of the last handler
    lastReq,          \* the last focusOnBody / returnToGlobal request
    samples,          \* FPSMonitor.samples (tenths of fps), oldest first
    frameTime,        \* FPSMonitor.frameTime (hundredths of ms)
    fps,              \* FPSMonitor.fps (tenths of fps)
    avgFps,           \* FPSMonitor.avgFps as [sum, n]: sum / n tenths of fps
    framesSinceQualityChange, \* FPSMonitor.framesSinceQualityChange
    currentQuality,   \* FPSMonitor.currentQuality
    currentPreset,    \* QualityManager.currentPreset
    autoQuality,      \* QualityManager.autoQuality
    window,           \* the frame times whose samples are in `samples'
    calls,            \* FPSMonitor.update() calls since the last quality change
    manualQuality,    \* the level of the last setQuality since enableAutoQuality
    mousePosition,    \* InteractionController.mousePosition (tenths)
    prevMousePosition, \* InteractionController.prevMousePosition (tenths)
    mouseVelocity,    \* InteractionController.mouseVelocity as [x, y, den]
    mouseSpeed,       \* InteractionController.mouseSpeed as [num, den]
    planetSpeed,      \* body -> Planet.mouseSpeed / uMouseSpeed as [num, den]
    targetMouseInfluence, \* CameraController.targetMouseInfluence (tenths)
    ticks,            \* InteractionController.update() calls since the last move
    lastSpeed,        \* the mouseSpeed set by the last pointer move (tenths)
    isRunning,        \* Engine.isRunning
    pendingFrames,    \* requestAnimationFrame callbacks waiting for the next frame
    frameQueue,       \* callbacks of the current frame that have not run yet
    updatesInFrame    \* runs of the update callbacks since the frame began

ctlVars == <<state, selectedBody, hoveredBody, timers, perturbStrength>>
camVars == <<isTransitioning, focusedBody, mouseViewEnabled, controlsEnabled,
             minDistance, maxDistance, pendingTween>>
obsVars == <<log, hoverLog, lastReq>>
interVars == <<ctlVars, camVars, obsVars>>
fpsVars == <<samples, frameTime, fps, avgFps, framesSinceQualityChange,
             currentQuality>>
qmVars == <<currentPreset, autoQuality>>
qobsVars == <<window, calls, manualQuality>>
qualVars == <<fpsVars, qmVars, qobsVars>>
ptrVars == <<mousePosition, prevMousePosition, mouseVelocity, mouseSpeed,
             planetSpeed, targetMouseInfluence, ticks, lastSpeed>>
engVars == <<isRunning, pendingFrames, frameQueue, updatesInFrame>>
vars == <<interVars, qualVars, ptrVars, engVars>>

\* ----------------------------------------------------------- notifications
StateChange(s, b) == [cb |-> "onStateChange", st |-> s, body |-> b]
BodySelect(b) == [cb |-> "onBodySelect", st |-> FOCUS, body |-> b]

NoTween == [kind |-> "none", body |-> null]
NoRequest == [kind |-> "none", body |-> null, from |-> GLOBAL, via |-> "none",
              prevKind |-> "none", prevBody |-> null]

\* The request record of a call made now: the state it is made in, the
\* handler it comes from, and the request it supersedes (the newest pending
\* timer, if any).
Request(k, b, via) ==
    [kind |-> k, body |-> b, from |-> state, via |-> via,
     prevKind |-> IF timers = <<>> THEN "none" ELSE timers[Len(timers)].kind,
     prevBody |-> IF timers = <<>> THEN null ELSE timers[Len(timers)].body]

\* ------------------------------------------------- quality control loop
\* FPSMonitor constructor: thresholds in tenths of fps, the dwell in frames.
HighQualityThreshold == 550
LowQualityThreshold == 300
QualityChangeDelay == 60
InitialFps == 600
InitialFrameTime == 1667

Qualities == {"high", "medium", "low"}

\* The frame durations fed to the monitor: 16 ms, 25 ms and 40 ms, that is
\* 62.5, 40 and 25 fps.
FrameTimes == {1600, 2500, 4000}

\* this.fps = 1000 / this.frameTime
FpsOf(t) == 1000000 \div t

RECURSIVE Sum(_)
Sum(s) == IF s = <<>> THEN 0 ELSE Head(s) + Sum(Tail(s))

\* The last n elements of s.
KeepLast(s, n) == IF Len(s) <= n THEN s ELSE SubSeq(s, Len(s) - n + 1, Len(s))

\* samples.push(x) without the shift.
PushSample_NoShift(s, x) == Append(s, x)

\* samples.push(x); if (samples.length > sampleSize) samples.shift();
PushSample(s, x) ==
    IF Len(Append(s, x)) > SampleSize THEN Tail(Append(s, x)) ELSE Append(s, x)

\* samples.reduce((a, b) => a + b, 0) / samples.length, kept as a fraction.
Average(s) == [sum |-> Sum(s), n |-> Len(s)]

AtLeast(avg, threshold) == avg.sum >= threshold * avg.n
Below(avg, threshold) == avg.sum < threshold * avg.n

\* checkQuality with `avgFps > highQualityThreshold' for the high level.
NewQuality_StrictHigh(avg, q) ==
    IF avg.sum > HighQualityThreshold * avg.n /\ q # "high" THEN "high"
    ELSE IF Below(avg, LowQualityThreshold) /\ q # "low" THEN "low"
    ELSE IF /\ AtLeast(avg, LowQualityThreshold)
            /\ Below(avg, HighQualityThreshold)
            /\ q # "medium" THEN "medium"
    ELSE q

\* checkQuality: the level chosen for an average, from the current level.
NewQuality(avg, q) ==
    IF AtLeast(avg, HighQualityThreshold) /\ q # "high" THEN "high"
    ELSE IF Below(avg, LowQualityThreshold) /\ q # "low" THEN "low"
    ELSE IF /\ AtLeast(avg, LowQualityThreshold)
            /\ Below(avg, HighQualityThreshold)
            /\ q # "medium" THEN "medium"
    ELSE q

\* checkQuality without the early return on the dwell counter.
DwellElapsed_NoDelay(frames) == TRUE

\* checkQuality: `if (framesSinceQualityChange < qualityChangeDelay) return'
DwellElapsed(frames) == frames >= QualityChangeDelay

QualityInit ==
    /\ samples = <<>>
    /\ frameTime = InitialFrameTime
    /\ fps = InitialFps
    /\ avgFps = [sum |-> InitialFps, n |-> 1]
    /\ framesSinceQualityChange = 0
    /\ currentQuality = "high"
    /\ currentPreset = "high"
    /\ autoQuality = TRUE
    /\ window = <<>>
    /\ calls = 0
    /\ manualQuality = "none"

\* FPSMonitor.update() for a frame that took t, with checkQuality and the
\* onQualityChange callback (QualityManager.applyQuality).
FPSMonitor_update(t) ==
    /\ framesSinceQualityChange < MaxFrames
    /\ frameTime' = t
    /\ fps' = FpsOf(t)
    /\ samples' = PushSample(samples, FpsOf(t))
    /\ avgFps' = Average(samples')
    /\ window' = KeepLast(Append(window, t), SampleSize)
    /\ IF /\ DwellElapsed(framesSinceQualityChange + 1)
          /\ NewQuality(avgFps', currentQuality) # currentQuality
       THEN /\ currentQuality' = NewQuality(avgFps', currentQuality)
            /\ framesSinceQualityChange' = 0
            /\ currentPreset' = NewQuality(avgFps', currentQuality)
            /\ calls' = 0
       ELSE /\ framesSinceQualityChange' = framesSinceQualityChange + 1
            /\ calls' = calls + 1
            /\ UNCHANGED <<currentQuality, currentPreset>>
    /\ UNCHANGED <<autoQuality, manualQuality, interVars, ptrVars, engVars>>

\* QualityManager.update()
QualityManager_update(t) == FPSMonitor_update(t)

\* QualityManager.setQuality(quality)
setQuality(quality) ==
    /\ autoQuality' = FALSE
    /\ currentPreset' = quality
    /\ manualQuality' = quality
    /\ UNCHANGED <<fpsVars, window, calls, interVars, ptrVars, engVars>>

\* QualityManager.enableAutoQuality()
enableAutoQuality ==
    /\ autoQuality' = TRUE
    /\ manualQuality' = "none"
    /\ UNCHANGED <<fpsVars, currentPreset, window, calls, interVars, ptrVars, engVars>>

QualityNext ==
    \/ \E t \in FrameTimes : QualityManager_update(t)
    \/ \E quality \in Qualities : setQuality(quality)
    \/ enableAutoQuality

\* ---------------------------------------------------------- pointer tracker
\* Pointer positions fed to onMouseMove, clientX / innerWidth and
\* clientY / innerHeight in tenths: the corners of a 0.3 x 0.4 rectangle,
\* whose mutual distances (0.3, 0.4, 0.5) have exact square roots.
PointerPositions == {<<0, 0>>, <<3, 0>>, <<0, 4>>, <<3, 4>>}

\* The arguments of CameraController.updateMouseView (tenths, -1..1).
NormalizedPositions == {<<x, y>> : x \in {-10, 0, 10}, y \in {-10, 0, 10}}

\* mouseSpeed = mouseVelocity.length() * 10
SpeedScale == 10

Zero == [num |-> 0, den |-> 1]

\* Vector2.length() of (x, y), for the vectors whose length is an integer.
Length(x, y) == CHOOSE n \in 0..(x * x + y * y) : n * n = x * x + y * y

\* mouse.x = position.x * 2 - 1, mouse.y = -(position.y * 2) + 1
Normalized(p) == <<2 * p[1] - 10, 10 - 2 * p[2]>>

\* f * (n / d); zero stays zero.
Times(f, n, d) ==
    IF f.num = 0 THEN f ELSE [num |-> f.num * n, den |-> f.den * d]

\* v.multiplyScalar(n / d); the zero vector stays as it is.
MultiplyScalar(v, n, d) ==
    IF v.x = 0 /\ v.y = 0 THEN v
    ELSE [x |-> v.x * n, y |-> v.y * n, den |-> v.den * d]

\* f <= g and f < g for fractions with positive denominators.
Leq(f, g) == f.num * g.den <= g.num * f.den
Less(f, g) == f.num * g.den < g.num * f.den

RECURSIVE Pow(_, _)
Pow(b, k) == IF k = 0 THEN 1 ELSE b * Pow(b, k - 1)

PointerInit ==
    /\ mousePosition = <<0, 0>>
    /\ prevMousePosition = <<0, 0>>
    /\ mouseVelocity = [x |-> 0, y |-> 0, den |-> 1]
    /\ mouseSpeed = Zero
    /\ planetSpeed = [b \in Bodies |-> Zero]
    /\ targetMouseInfluence = <<0, 0>>
    /\ ticks = 0
    /\ lastSpeed = 0

\* ------------------------------------------------------------------ Engine
EngineInit ==
    /\ isRunning = FALSE
    /\ pendingFrames = 0
    /\ frameQueue = 0
    /\ updatesInFrame = 0

\* ------------------------------------------------------------------- Init
Init ==
    /\ state = GLOBAL
    /\ selectedBody = null
    /\ hoveredBody = null
    /\ timers = <<>>
    /\ perturbStrength = [b \in Bodies |-> PerturbInitial]
    /\ isTransitioning = FALSE
    /\ focusedBody = null
    /\ mouseViewEnabled = FALSE
    /\ controlsEnabled = TRUE
    /\ minDistance = DefaultMinDistance
    /\ maxDistance = DefaultMaxDistance
    /\ pendingTween = NoTween
    /\ log = <<>>
    /\ hoverLog = <<>>
    /\ lastReq = NoRequest
    /\ QualityInit
    /\ PointerInit
    /\ EngineInit

\* ------------------------------------------------------- CameraController
\* CameraController.focusOnBody: kills the running tweens, starts new ones.
CameraFocusOnBody(body) ==
    /\ isTransitioning' = TRUE
    /\ focusedBody' = body
    /\ mouseViewEnabled' = FALSE
    /\ controlsEnabled' = FALSE
    /\ pendingTween' = [kind |-> "focus", body |-> body]
    /\ UNCHANGED <<minDistance, maxDistance>>

\* returnToOverview without killAllTweens: a running tween keeps running.
CameraReturnToOverview_NoKill ==
    /\ isTransitioning' = TRUE
    /\ focusedBody' = null
    /\ mouseViewEnabled' = FALSE
    /\ controlsEnabled' = FALSE
    /\ pendingTween' = IF pendingTween = NoTween
                       THEN [kind |-> "return", body |-> null]
                       ELSE pendingTween
    /\ UNCHANGED <<minDistance, maxDistance>>

\* CameraController.returnToOverview
CameraReturnToOverview ==
    /\ isTransitioning' = TRUE
    /\ focusedBody' = null
    /\ mouseViewEnabled' = FALSE
    /\ controlsEnabled' = FALSE
    /\ pendingTween' = [kind |-> "return", body |-> null]
    /\ UNCHANGED <<minDistance, maxDistance>>

\* onComplete of the target tween started by CameraController.focusOnBody
FocusTweenComplete ==
    /\ UNCHANGED <<qualVars, ptrVars, engVars>>
    /\ pendingTween.kind = "focus"
    /\ isTransitioning' = FALSE
    /\ controlsEnabled' = TRUE
    /\ mouseViewEnabled' = TRUE
    /\ minDistance' = FocusMinDistance(pendingTween.body)
    /\ maxDistance' = FocusMaxDistance(pendingTween.body)
    /\ pendingTween' = NoTween
    /\ hoverLog' = <<>>
    /\ UNCHANGED <<ctlVars, focusedBody, log, lastReq>>

\* The return tween's onComplete without the reset of the distance bounds.
ReturnTweenComplete_KeepsBounds ==
    /\ UNCHANGED <<qualVars, ptrVars, engVars>>
    /\ pendingTween.kind = "return"
    /\ isTransitioning' = FALSE
    /\ controlsEnabled' = TRUE
    /\ pendingTween' = NoTween
    /\ hoverLog' = <<>>
    /\ UNCHANGED <<ctlVars, focusedBody, mouseViewEnabled, minDistance,
                   maxDistance, log, lastReq>>

\* onComplete of the target tween started by CameraController.returnToOverview
ReturnTweenComplete ==
    /\ UNCHANGED <<qualVars, ptrVars, engVars>>
    /\ pendingTween.kind = "return"
    /\ isTransitioning' = FALSE
    /\ controlsEnabled' = TRUE
    /\ minDistance' = DefaultMinDistance
    /\ maxDistance' = DefaultMaxDistance
    /\ pendingTween' = NoTween
    /\ hoverLog' = <<>>
    /\ UNCHANGED <<ctlVars, focusedBody, mouseViewEnabled, log, lastReq>>

\* -------------------------------------------------- InteractionController
\* focusOnBody without `this.state = InteractionState.TRANSITION'.
focusOnBody_KeepsState(body, via) ==
    /\ Len(timers) < MaxTimers
    /\ selectedBody' = body
    /\ perturbStrength' = [perturbStrength EXCEPT ![body] = PerturbOn]
    /\ log' = <<StateChange(TRANSITION, body)>>
    /\ CameraFocusOnBody(body)
    /\ timers' = Append(timers, [kind |-> "focus", body |-> body])
    /\ lastReq' = Request("focus", body, via)
    /\ UNCHANGED <<state, hoveredBody>>

\* InteractionController.focusOnBody(body), body non-null, called from `via'.
focusOnBody(body, via) ==
    /\ Len(timers) < MaxTimers
    /\ state' = TRANSITION
    /\ selectedBody' = body
    /\ perturbStrength' = [perturbStrength EXCEPT ![body] = PerturbOn]
    /\ log' = <<StateChange(TRANSITION, body)>>
    /\ CameraFocusOnBody(body)
    /\ timers' = Append(timers, [kind |-> "focus", body |-> body])
    /\ lastReq' = Request("focus", body, via)
    /\ UNCHANGED hoveredBody

\* InteractionController.returnToGlobal(), called from `via'.
returnToGlobal(via) ==
    /\ Len(timers) < MaxTimers
    /\ perturbStrength' = IF selectedBody # null
                          THEN [perturbStrength EXCEPT ![selectedBody] = PerturbOff]
                          ELSE perturbStrength
    /\ state' = TRANSITION
    /\ log' = <<StateChange(TRANSITION, null)>>
    /\ CameraReturnToOverview
    /\ timers' = Append(timers, [kind |-> "return", body |-> null])
    /\ lastReq' = Request("return", null, via)
    /\ UNCHANGED <<selectedBody, hoveredBody>>

\* A handler that returns without touching the controller or the camera.
Ignored == UNCHANGED <<ctlVars, camVars, log, lastReq>>

\* 'click' listener: onClick, the ray hitting body `hit' (0: no hit).
onClick(hit) ==
    /\ UNCHANGED <<qualVars, ptrVars, engVars>>
    /\ hoverLog' = <<>>
    /\ IF state = GLOBAL /\ hit # null
       THEN focusOnBody(hit, "click")
       ELSE Ignored

\* 'contextmenu' listener
onContextMenu ==
    /\ UNCHANGED <<qualVars, ptrVars, engVars>>
    /\ hoverLog' = <<>>
    /\ IF state = FOCUS
       THEN returnToGlobal("contextmenu")
       ELSE Ignored

\* 'keydown' listener: onKeyDown with key Escape
onKeyDown ==
    /\ UNCHANGED <<qualVars, ptrVars, engVars>>
    /\ hoverLog' = <<>>
    /\ IF state \in {FOCUS, TRANSITION}
       THEN returnToGlobal("Escape")
       ELSE Ignored

\* focusOnBody / returnToGlobal called directly on the controller.
CallFocusOnBody(body) ==
    /\ UNCHANGED <<qualVars, ptrVars, engVars>>
    /\ hoverLog' = <<>>
    /\ focusOnBody(body, "call")

CallReturnToGlobal ==
    /\ UNCHANGED <<qualVars, ptrVars, engVars>>
    /\ hoverLog' = <<>>
    /\ returnToGlobal("call")

\* onMouseMove whose updateHover reports every sample, changed or not.
onMouseMove_AlwaysNotifies(hit) ==
    /\ UNCHANGED <<qualVars, ptrVars, engVars>>
    /\ perturbStrength' =
          IF state = FOCUS /\ selectedBody # null /\ hit = selectedBody
          THEN [perturbStrength EXCEPT ![selectedBody] = PerturbOn]
          ELSE perturbStrength
    /\ hoveredBody' = IF state = GLOBAL THEN hit ELSE hoveredBody
    /\ hoverLog' = IF state = GLOBAL THEN <<hit>> ELSE <<>>
    /\ UNCHANGED <<state, selectedBody, timers, camVars, log, lastReq>>

\* 'mousemove' listener: onMouseMove, the ray hitting body `hit' (0: none).
\* In FOCUS: updateMouseView and updatePerturbation (which re-enables the
\* perturbation when the ray hits the selected body); in GLOBAL: updateHover.
onMouseMove(hit) ==
    /\ UNCHANGED <<qualVars, ptrVars, engVars>>
    /\ perturbStrength' =
          IF state = FOCUS /\ selectedBody # null /\ hit = selectedBody
          THEN [perturbStrength EXCEPT ![selectedBody] = PerturbOn]
          ELSE perturbStrength
    /\ hoveredBody' = IF state = GLOBAL THEN hit ELSE hoveredBody
    /\ hoverLog' = IF state = GLOBAL /\ hit # hoveredBody THEN <<hit>> ELSE <<>>
    /\ UNCHANGED <<state, selectedBody, timers, camVars, log, lastReq>>

\* FocusTimeout whose callback never commits FOCUS.
FocusTimeout_NeverCommits ==
    /\ UNCHANGED <<qualVars, ptrVars, engVars>>
    /\ timers # <<>>
    /\ Head(timers).kind = "focus"
    /\ timers' = Tail(timers)
    /\ hoverLog' = <<>>
    /\ UNCHANGED <<state, log, selectedBody, hoveredBody, perturbStrength,
                   camVars, lastReq>>

\* FocusTimeout without the `selectedBody === body' check.
FocusTimeout_Unguarded ==
    /\ UNCHANGED <<qualVars, ptrVars, engVars>>
    /\ timers # <<>>
    /\ Head(timers).kind = "focus"
    /\ timers' = Tail(timers)
    /\ hoverLog' = <<>>
    /\ state' = FOCUS
    /\ log' = log \o <<StateChange(FOCUS, Head(timers).body),
                       BodySelect(Head(timers).body)>>
    /\ UNCHANGED <<selectedBody, hoveredBody, perturbStrength, camVars,
                   lastReq>>

\* The setTimeout callback registered by focusOnBody(body) fires.
FocusTimeout ==
    /\ UNCHANGED <<qualVars, ptrVars, engVars>>
    /\ timers # <<>>
    /\ Head(timers).kind = "focus"
    /\ timers' = Tail(timers)
    /\ hoverLog' = <<>>
    /\ IF selectedBody = Head(timers).body
       THEN /\ state' = FOCUS
            /\ log' = log \o <<StateChange(FOCUS, Head(timers).body),
                               BodySelect(Head(timers).body)>>
       ELSE UNCHANGED <<state, log>>
    /\ UNCHANGED <<selectedBody, hoveredBody, perturbStrength, camVars,
                   lastReq>>

\* ReturnTimeout without `this.selectedBody = null'.
ReturnTimeout_KeepsSelection ==
    /\ UNCHANGED <<qualVars, ptrVars, engVars>>
    /\ timers # <<>>
    /\ Head(timers).kind = "return"
    /\ timers' = Tail(timers)
    /\ hoverLog' = <<>>
    /\ state' = GLOBAL
    /\ log' = log \o <<StateChange(GLOBAL, null)>>
    /\ UNCHANGED <<selectedBody, hoveredBody, perturbStrength, camVars, lastReq>>

\* The setTimeout callback registered by returnToGlobal() fires.
ReturnTimeout ==
    /\ UNCHANGED <<qualVars, ptrVars, engVars>>
    /\ timers # <<>>
    /\ Head(timers).kind = "return"
    /\ timers' = Tail(timers)
    /\ hoverLog' = <<>>
    /\ state' = GLOBAL
    /\ selectedBody' = null
    /\ log' = log \o <<StateChange(GLOBAL, null)>>
    /\ UNCHANGED <<hoveredBody, perturbStrength, camVars, lastReq>>

Next ==
    \/ \E hit \in BodyOrNull : onClick(hit)
    \/ onContextMenu
    \/ onKeyDown
    \/ \E body \in Bodies : CallFocusOnBody(body)
    \/ CallReturnToGlobal
    \/ \E hit \in BodyOrNull : onMouseMove(hit)
    \/ FocusTimeout
    \/ ReturnTimeout
    \/ FocusTweenComplete
    \/ ReturnTweenComplete

Spec == Init /\ [][Next]_vars

\* The quality control loop on its own.
QualitySpec == Init /\ [][QualityNext]_vars

\* InteractionController.focusOnBody(null): state and selectedBody are
\* assigned, then `body.setPerturbation' throws a TypeError; nothing after
\* it runs (no notification, no camera call, no timer).
CallFocusOnBodyNull ==
    /\ state' = TRANSITION
    /\ selectedBody' = null
    /\ hoverLog' = <<>>
    /\ UNCHANGED <<hoveredBody, timers, perturbStrength, camVars, log, lastReq,
                   qualVars, ptrVars, engVars>>

\* CameraController.focusOnBody(null): the tweens are killed and the three
\* fields assigned, then `body.getWorldPosition()' throws a TypeError before
\* controls.enabled is touched and before any tween is started.
CameraCallFocusOnBodyNull ==
    /\ pendingTween' = NoTween
    /\ isTransitioning' = TRUE
    /\ focusedBody' = null
    /\ mouseViewEnabled' = FALSE
    /\ hoverLog' = <<>>
    /\ UNCHANGED <<ctlVars, controlsEnabled, minDistance, maxDistance, log,
                   lastReq, qualVars, ptrVars, engVars>>

NullNext ==
    \/ Next
    \/ CallFocusOnBodyNull
    \/ CameraCallFocusOnBodyNull

\* The controllers with callers that may pass null to focusOnBody.
NullSpec == Init /\ [][NullNext]_vars

\* ---------------------------------------------------------- pointer tracker
\* CameraController.updateMouseView(mouseX, mouseY) without its early return.
updateMouseView_Unguarded(m) == targetMouseInfluence' = m

\* CameraController.updateMouseView(mouseX, mouseY)
updateMouseView(m) ==
    targetMouseInfluence' =
        IF ~mouseViewEnabled \/ focusedBody = null \/ isTransitioning
        THEN targetMouseInfluence
        ELSE m

\* 'mousemove' listener: onMouseMove with the pointer at p and the ray
\* hitting body `hit' (0: none).  In FOCUS it calls updateMouseView and
\* updatePerturbation (setMouseInfo and setPerturbation on the selected body
\* when the ray hits it), in GLOBAL updateHover.
onMouseMoveAt(p, hit) ==
    /\ prevMousePosition' = mousePosition
    /\ mousePosition' = p
    /\ mouseVelocity' = [x |-> p[1] - mousePosition[1],
                         y |-> p[2] - mousePosition[2], den |-> 1]
    /\ mouseSpeed' = [num |-> Length(mouseVelocity'.x, mouseVelocity'.y)
                                 * SpeedScale,
                      den |-> 1]
    /\ IF state = FOCUS
       THEN updateMouseView(Normalized(p))
       ELSE UNCHANGED targetMouseInfluence
    /\ IF state = FOCUS /\ selectedBody # null /\ hit = selectedBody
       THEN /\ planetSpeed' = [planetSpeed EXCEPT ![selectedBody] = mouseSpeed']
            /\ perturbStrength' =
                  [perturbStrength EXCEPT ![selectedBody] = PerturbOn]
       ELSE UNCHANGED <<planetSpeed, perturbStrength>>
    /\ hoveredBody' = IF state = GLOBAL THEN hit ELSE hoveredBody
    /\ hoverLog' = IF state = GLOBAL /\ hit # hoveredBody THEN <<hit>> ELSE <<>>
    /\ ticks' = 0
    /\ lastSpeed' = mouseSpeed'.num
    /\ UNCHANGED <<state, selectedBody, timers, camVars, log, lastReq,
                   qualVars, engVars>>

\* InteractionController.update without the decay of mouseSpeed.
InteractionController_update_NoSpeedDecay ==
    /\ ticks < MaxTicks
    /\ mouseVelocity' = MultiplyScalar(mouseVelocity, 9, 10)
    /\ ticks' = ticks + 1
    /\ hoverLog' = <<>>
    /\ UNCHANGED <<ctlVars, camVars, log, lastReq, qualVars, engVars,
                   mousePosition, prevMousePosition, mouseSpeed, planetSpeed,
                   targetMouseInfluence, lastSpeed>>

\* InteractionController.update(deltaTime), once per simulation tick.
InteractionController_update ==
    /\ ticks < MaxTicks
    /\ mouseVelocity' = MultiplyScalar(mouseVelocity, 9, 10)
    /\ mouseSpeed' = Times(mouseSpeed, 3, 4)
    /\ ticks' = ticks + 1
    /\ hoverLog' = <<>>
    /\ UNCHANGED <<ctlVars, camVars, log, lastReq, qualVars, engVars,
                   mousePosition, prevMousePosition, planetSpeed,
                   targetMouseInfluence, lastSpeed>>

PointerNext ==
    \/ \E hit \in BodyOrNull : onClick(hit)
    \/ FocusTimeout
    \/ FocusTweenComplete
    \/ \E p \in PointerPositions, hit \in BodyOrNull : onMouseMoveAt(p, hit)
    \/ InteractionController_update

\* The pointer tracker with the click that leads into FOCUS.
PointerSpec == Init /\ [][PointerNext]_vars

\* -------------------------------------------- CameraController on its own
\* CameraController.focusOnBody(body), body non-null, called directly.
CameraController_focusOnBody(body) ==
    /\ CameraFocusOnBody(body)
    /\ UNCHANGED <<ctlVars, obsVars, qualVars, ptrVars, engVars>>

\* CameraController.returnToOverview(), called directly.
CameraController_returnToOverview ==
    /\ CameraReturnToOverview
    /\ UNCHANGED <<ctlVars, obsVars, qualVars, ptrVars, engVars>>

\* CameraController.updateMouseView(m), called directly.
CameraController_updateMouseView(m) ==
    /\ updateMouseView(m)
    /\ UNCHANGED <<interVars, qualVars, engVars, mousePosition,
                   prevMousePosition, mouseVelocity, mouseSpeed, planetSpeed,
                   ticks, lastSpeed>>

CameraNext ==
    \/ \E body \in Bodies : CameraController_focusOnBody(body)
    \/ CameraController_returnToOverview
    \/ \E m \in NormalizedPositions : CameraController_updateMouseView(m)
    \/ FocusTweenComplete
    \/ ReturnTweenComplete

CameraSpec == Init /\ [][CameraNext]_vars

\* ------------------------------------------------------------------ Engine
\* Engine.animate (as overridden by SolarCinderApp.setupScene): while
\* running it registers the next frame callback and runs the update
\* callbacks once.
animate ==
    IF isRunning
    THEN /\ pendingFrames' = pendingFrames + 1
         /\ updatesInFrame' = updatesInFrame + 1
    ELSE UNCHANGED <<pendingFrames, updatesInFrame>>

\* Engine.start()
start ==
    /\ pendingFrames + frameQueue < MaxPendingFrames
    /\ IF isRunning
       THEN UNCHANGED engVars
       ELSE /\ isRunning' = TRUE
            /\ pendingFrames' = pendingFrames + 1
            /\ updatesInFrame' = updatesInFrame + 1
            /\ UNCHANGED frameQueue
    /\ UNCHANGED <<interVars, qualVars, ptrVars>>

\* Engine.stop()
stop ==
    /\ isRunning' = FALSE
    /\ UNCHANGED <<pendingFrames, frameQueue, updatesInFrame>>
    /\ UNCHANGED <<interVars, qualVars, ptrVars>>

\* The browser begins a display frame: the callbacks registered so far are
\* the ones it will run in this frame.
DisplayFrame ==
    /\ frameQueue = 0
    /\ pendingFrames > 0
    /\ frameQueue' = pendingFrames
    /\ pendingFrames' = 0
    /\ updatesInFrame' = 0
    /\ UNCHANGED <<isRunning, interVars, qualVars, ptrVars>>

\* The browser runs one requestAnimationFrame callback of the frame.
FrameCallback ==
    /\ frameQueue > 0
    /\ frameQueue' = frameQueue - 1
    /\ animate
    /\ UNCHANGED <<isRunning, interVars, qualVars, ptrVars>>

EngineNext ==
    \/ start
    \/ stop
    \/ DisplayFrame
    \/ FrameCallback

EngineSpec == Init /\ [][EngineNext]_vars

\* Timers and tweens that are due do fire.
Timeout == FocusTimeout \/ ReturnTimeout
TweenComplete == FocusTweenComplete \/ ReturnTweenComplete

FairSpec ==
    /\ Spec
    /\ WF_vars(Timeout)
    /\ WF_vars(TweenComplete)

TypeOK ==
    /\ state \in InteractionState
    /\ selectedBody \in BodyOrNull
    /\ hoveredBody \in BodyOrNull
    /\ focusedBody \in BodyOrNull
    /\ Len(timers) <= MaxTimers

\* ------------------------------------------------------------ observations
\* The step removes the oldest timer: a setTimeout callback has fired.
TimerFires == Len(timers') < Len(timers)

\* The step registers a timer: focusOnBody or returnToGlobal was called.
RequestMade == Len(timers') > Len(timers)

\* A pending timer is superseded when a later request is pending behind it.
LaterTimers == {timers[i] : i \in 2..Len(timers)}

Last(s) == s[Len(s)]

Count(s, x) == Cardinality({i \in 1..Len(s) : s[i] = x})

\* CameraController.update(): the step that calls controls.update().
ControlsUpdateWrites == controlsEnabled /\ ~isTransitioning

\* CameraController.update(): the mouse-parallax step.
ParallaxWrites == mouseViewEnabled /\ focusedBody # null /\ ~isTransitioning

\* A scripted transition tween is running.
TweenWrites == pendingTween # NoTween

\* Who writes camera.position / controls.target in a tick taken now.
PoseWriters ==
    {w \in {"controls", "tween", "parallax"} :
        \/ w = "controls" /\ ControlsUpdateWrites
        \/ w = "tween" /\ TweenWrites
        \/ w = "parallax" /\ ParallaxWrites}

\* The step is a call of FPSMonitor.update().
UpdateCalled == framesSinceQualityChange' # framesSinceQualityChange

\* The level whose bucket holds an instantaneous frame rate.
Bucket(x) ==
    IF x >= HighQualityThreshold THEN "high"
    ELSE IF x < LowQualityThreshold THEN "low"
    ELSE "medium"

\* The samples of a window that lie outside the bucket of level q.
Excursions(s, q) == {i \in 1..Len(s) : Bucket(s[i]) # q}

\* The step is a call of InteractionController.update().
TickCalled == ticks' = ticks + 1

\* The step calls neither focusOnBody nor returnToGlobal.
NoRequestMade == ~RequestMade

\* The level of an average frame rate: >= 55 high, < 30 low, else medium.
AvgBucket(avg) ==
    IF avg.sum >= HighQualityThreshold * avg.n THEN "high"
    ELSE IF avg.sum < LowQualityThreshold * avg.n THEN "low"
    ELSE "medium"

LegalEdges == {<<GLOBAL, TRANSITION>>, <<TRANSITION, FOCUS>>,
               <<FOCUS, TRANSITION>>, <<TRANSITION, GLOBAL>>}

\* ------------------------------------------------------------------ claims

\* C1: every change of `state' follows one of the four edges
\* GLOBAL->TRANSITION, TRANSITION->FOCUS, FOCUS->TRANSITION,
\* TRANSITION->GLOBAL.
C1_OnlyLegalEdges ==
    [][state' # state => <<state, state'>> \in LegalEdges]_vars

\* C2: state never changes from GLOBAL directly to FOCUS; a focus completion
\* callback that commits FOCUS runs with state TRANSITION or FOCUS.
C2_NeverGlobalToFocus ==
    [][/\ ~(state = GLOBAL /\ state' = FOCUS)
       /\ (TimerFires /\ Head(timers).kind = "focus" /\ log' # log)
             => state \in {TRANSITION, FOCUS}]_vars

\* A focus completion callback has just committed FOCUS.
C2_Witness ==
    /\ state = FOCUS
    /\ log # <<>>
    /\ Last(log) = BodySelect(selectedBody)

\* C3: selectedBody is non-null exactly when the controller is in FOCUS or
\* in a TRANSITION entered by focusOnBody; it is null in GLOBAL and
\* throughout a return transition.
C3_SelectedIffFocusing ==
    (selectedBody # null) <=>
        (state = FOCUS \/ (state = TRANSITION /\ lastReq.kind = "focus"))

\* C4: focusOnBody(A) followed by focusOnBody(B), A # B, before A's callback
\* fires and with no later request, ends in FOCUS with selectedBody = B, and
\* nothing reports A as focused after the focusOnBody(B) call.
C4_LatestFocusWins ==
    (/\ lastReq.kind = "focus"
     /\ lastReq.prevKind = "focus"
     /\ lastReq.prevBody # lastReq.body
     /\ timers = <<>>)
        => /\ state = FOCUS
           /\ selectedBody = lastReq.body
           /\ Count(log, StateChange(FOCUS, lastReq.prevBody)) = 0
           /\ Count(log, BodySelect(lastReq.prevBody)) = 0

\* C5: the completion callback of a superseded focus transition is a no-op:
\* it does not set state to FOCUS and emits no notification.
C5_SupersededFocusIsNoOp ==
    [][(TimerFires /\ Head(timers).kind = "focus" /\ Len(timers) > 1)
          => (state' = state /\ log' = log)]_vars

\* C6: the completion callback of a return transition superseded by a later
\* focus is a no-op: it does not set GLOBAL, does not clear selectedBody and
\* emits nothing, and the focus still commits FOCUS.
C6_SupersededReturnIsNoOp ==
    /\ [][(/\ TimerFires
           /\ Head(timers).kind = "return"
           /\ \E t \in LaterTimers : t.kind = "focus")
             => (state' = state /\ selectedBody' = selectedBody /\ log' = log)]_vars
    /\ []((lastReq.kind = "focus" /\ lastReq.prevKind = "return" /\ timers = <<>>)
             => (state = FOCUS /\ selectedBody = lastReq.body))

\* C7: a click in GLOBAL that hits body b, with no later request, ends (once
\* every pending timer has fired) in FOCUS with selectedBody = b and
\* onBodySelect(b) emitted exactly once; the state then stays FOCUS.
C7_ClickEndsFocused ==
    /\ []((lastReq.via = "click" /\ timers = <<>>)
             => /\ state = FOCUS
                /\ selectedBody = lastReq.body
                /\ Count(log, BodySelect(lastReq.body)) = 1)
    /\ [][(lastReq.via = "click" /\ timers = <<>> /\ ~RequestMade)
             => state' = FOCUS]_vars

\* C8: a return requested in FOCUS or TRANSITION, with no later request,
\* ends in GLOBAL with selectedBody = null, the last notification being
\* onStateChange(GLOBAL, null); state and selection then stay so until the
\* next request.
C8_ReturnPending ==
    lastReq.kind = "return" /\ lastReq.from \in {FOCUS, TRANSITION}

C8_ReturnSettled ==
    /\ timers = <<>>
    /\ state = GLOBAL
    /\ selectedBody = null
    /\ log # <<>>
    /\ Last(log) = StateChange(GLOBAL, null)

C8_ReturnEndsGlobal ==
    /\ C8_ReturnPending ~> (C8_ReturnSettled \/ ~C8_ReturnPending)
    /\ []((C8_ReturnPending /\ timers = <<>>) => C8_ReturnSettled)
    /\ [][(C8_ReturnPending /\ timers = <<>> /\ ~RequestMade)
             => (state' = GLOBAL /\ selectedBody' = null)]_vars

\* A return requested during a focus transition has completed.
C8_Witness ==
    /\ C8_ReturnPending
    /\ lastReq.prevKind = "focus"
    /\ C8_ReturnSettled

\* The effect of starting a return from the current state.
ReturnStarted ==
    /\ state' = TRANSITION
    /\ log' = <<StateChange(TRANSITION, null)>>
    /\ pendingTween'.kind = "return"
    /\ isTransitioning'
    /\ focusedBody' = null
    /\ selectedBody # null => perturbStrength'[selectedBody] = PerturbOff

\* The effect of starting a focus on body b from the current state.
FocusStarted(b) ==
    /\ state' = TRANSITION
    /\ selectedBody' = b
    /\ pendingTween' = [kind |-> "focus", body |-> b]
    /\ focusedBody' = b
    /\ log' = <<StateChange(TRANSITION, b)>>

\* C9: a right-click and an Escape press each start a return when state is
\* FOCUS or TRANSITION (perturbation of the selected body off, state
\* TRANSITION, onStateChange(TRANSITION, null), returnToOverview invoked) and
\* do nothing when state is GLOBAL.
C9_SecondaryAndCancelReturn ==
    /\ (state \in {FOCUS, TRANSITION} /\ Len(timers) < MaxTimers)
          => /\ ENABLED (onContextMenu /\ ReturnStarted)
             /\ ENABLED (onKeyDown /\ ReturnStarted)
    /\ state = GLOBAL
          => /\ ENABLED (onContextMenu /\ UNCHANGED <<ctlVars, camVars, log>>)
             /\ ENABLED (onKeyDown /\ UNCHANGED <<ctlVars, camVars, log>>)

\* C10: a click that hits body b while state is TRANSITION records b as
\* selectedBody, invokes CameraController.focusOnBody(b) and emits
\* onStateChange(TRANSITION, b).
C10_ClickDuringTransitionAccepted ==
    (state = TRANSITION /\ Len(timers) < MaxTimers)
        => \A b \in Bodies : ENABLED (onClick(b) /\ FocusStarted(b))

\* C11: focusOnBody(null), on the interaction controller or on the camera
\* controller, leaves state, selectedBody, isTransitioning, focusedBody,
\* mouseViewEnabled, controls.enabled and the running tweens as they were
\* and emits no notification.
C11_NullFocusRejected ==
    [][(CallFocusOnBodyNull \/ CameraCallFocusOnBodyNull)
          => /\ UNCHANGED <<state, selectedBody, isTransitioning, focusedBody,
                            mouseViewEnabled, controlsEnabled, pendingTween>>
             /\ log' = log]_vars

\* C12: at most one scripted camera transition is in flight: the call that
\* starts a transition leaves only its own tween running, the running tween
\* is always the one of the latest request, and a completion that enables
\* parallax, narrows the orbit bounds or restores the default bounds belongs
\* to the latest request.
C12_OneTransitionInFlight ==
    /\ [](pendingTween # NoTween
             => /\ pendingTween.kind = lastReq.kind
                /\ pendingTween.body = lastReq.body)
    /\ [][RequestMade
             => pendingTween' = [kind |-> lastReq'.kind, body |-> lastReq'.body]]_vars
    /\ [][((mouseViewEnabled' /\ ~mouseViewEnabled)
              \/ (minDistance' # minDistance /\ minDistance' # DefaultMinDistance))
             => /\ lastReq.kind = "focus"
                /\ minDistance' = FocusMinDistance(lastReq.body)
                /\ maxDistance' = FocusMaxDistance(lastReq.body)]_vars
    /\ [][(minDistance' # minDistance /\ minDistance' = DefaultMinDistance)
             => lastReq.kind = "return"]_vars

\* A return has superseded a focus whose tween was still running: only the
\* return tween runs, parallax is off and the bounds are the default ones.
C12_Witness ==
    /\ pendingTween.kind = "return"
    /\ lastReq.prevKind = "focus"
    /\ Len(timers) = 2
    /\ ~mouseViewEnabled
    /\ minDistance = DefaultMinDistance

\* C13: in every tick at most one of OrbitControls navigation, a scripted
\* transition tween and the mouse-parallax step writes the camera pose.
C13_SinglePoseOwner == Cardinality(PoseWriters) <= 1

\* C14: mouseViewEnabled is true only if the interaction state is FOCUS.
C14_ParallaxOnlyInFocus == mouseViewEnabled => state = FOCUS

\* C15: at least qualityChangeDelay update() calls separate a change of
\* currentQuality from the previous change (or from construction), and every
\* change resets framesSinceQualityChange to 0.
C15_QualityDwell ==
    [][currentQuality' # currentQuality
          => /\ calls + 1 >= QualityChangeDelay
             /\ framesSinceQualityChange' = 0]_vars

\* The level has come back to high: at least two changes have happened.
C15_Witness ==
    /\ currentQuality = "high"
    /\ samples # <<>>
    /\ calls = 0

\* C16: a one-frame excursion never changes the level: currentQuality does
\* not change while exactly one sample of the window lies outside the
\* current level's bucket.
C16_OneFrameExcursionIgnored ==
    [][currentQuality' # currentQuality
          => Cardinality(Excursions(samples', currentQuality)) # 1]_vars

\* C17: from setQuality(q) until enableAutoQuality(), currentPreset stays q.
C17_ManualOverrideHolds ==
    (~autoQuality /\ manualQuality # "none") => currentPreset = manualQuality

\* C18: the sample window is a bounded FIFO: its length never exceeds
\* sampleSize, it holds the samples of the latest min(calls, sampleSize)
\* frames in order, and an update on a full window drops exactly the oldest
\* sample and appends the newest.
C18_BoundedFifoWindow ==
    /\ [](/\ Len(samples) <= SampleSize
          /\ samples = [i \in 1..Len(window) |-> FpsOf(window[i])])
    /\ [][UpdateCalled
             => /\ Len(samples) < SampleSize
                   => samples' = Append(samples, fps')
                /\ Len(samples) = SampleSize
                   => samples' = Tail(samples) \o <<fps'>>]_vars

\* The window is full and has already evicted a sample.
C18_Witness ==
    /\ Len(samples) = SampleSize
    /\ calls > SampleSize
    /\ samples[1] # samples[SampleSize]

\* C19: after every update avgFps equals 1000 divided by the arithmetic
\* mean of the frame durations in the window.
C19_AvgFromMeanDuration ==
    window # <<>>
        => avgFps.sum * Sum(window) = 1000000 * Len(window) * avgFps.n

\* C20: onBodyHover is invoked only by a pointer move handled in GLOBAL whose
\* picked body differs from the previous hoveredBody, and it carries the new
\* hoveredBody; every change of hoveredBody is reported; a pointer move
\* handled in TRANSITION or FOCUS leaves hoveredBody alone and reports
\* nothing.
C20_HoverOnlyInGlobalOnChange ==
    [][/\ hoverLog' # <<>>
          => /\ state = GLOBAL
             /\ hoveredBody' # hoveredBody
             /\ hoverLog' = <<hoveredBody'>>
       /\ hoveredBody' # hoveredBody => hoverLog' = <<hoveredBody'>>
       /\ state # GLOBAL => (hoveredBody' = hoveredBody /\ hoverLog' = <<>>)]_vars

\* A pointer move in GLOBAL has just reported a newly hovered body.
C20_Witness ==
    /\ state = GLOBAL
    /\ hoveredBody # null
    /\ hoverLog = <<hoveredBody>>

C22_BoundsFollowFocus ==
    ~isTransitioning
        => IF focusedBody # null
           THEN /\ minDistance = FocusMinDistance(focusedBody)
                /\ maxDistance = FocusMaxDistance(focusedBody)
           ELSE /\ minDistance = DefaultMinDistance
                /\ maxDistance = DefaultMaxDistance

\* The camera has settled on body 2 after a focus on body 1 was superseded
\* before its timer fired.
C22_Witness ==
    /\ ~isTransitioning
    /\ focusedBody = 2
    /\ minDistance = FocusMinDistance(2)
    /\ lastReq.prevKind = "focus"
    /\ lastReq.prevBody = 1

\* C23: every checkQuality that runs with framesSinceQualityChange >= 60
\* leaves currentQuality equal to the bucket of avgFps: >= 55 high, < 30 low,
\* otherwise medium, whatever the previous level.
C23_ThresholdMapping ==
    [][(UpdateCalled /\ framesSinceQualityChange + 1 >= QualityChangeDelay)
          => currentQuality' = AvgBucket(avgFps')]_vars

\* The level has just changed to high on an average of exactly 55.
C23_Witness ==
    /\ currentQuality = "high"
    /\ samples # <<>>
    /\ calls = 0
    /\ avgFps.sum = HighQualityThreshold * avgFps.n

\* C24: in FOCUS, each tick lowers the pointer speed held by the selected
\* body's perturbation effect as long as it is positive.
C24_PerturbationSettles ==
    [][(/\ TickCalled
        /\ state = FOCUS
        /\ selectedBody # null
        /\ planetSpeed[selectedBody].num > 0)
          => Less(planetSpeed'[selectedBody], planetSpeed[selectedBody])]_vars

\* C25: at most one frame callback of the engine is pending, the update
\* callbacks run at most once per display frame, and no update callback
\* runs while the engine is stopped.
C25_OneTickPerFrame ==
    /\ [](pendingFrames + frameQueue <= 1)
    /\ [](updatesInFrame <= 1)
    /\ [][(~isRunning /\ ~isRunning') => updatesInFrame' <= updatesInFrame]_vars

\* C26: state = GLOBAL implies selectedBody = null.
C26_GlobalImpliesNoSelection == state = GLOBAL => selectedBody = null

\* A stale return callback has set GLOBAL while a later focus is pending.
C26_Witness ==
    /\ state = GLOBAL
    /\ selectedBody = null
    /\ lastReq.kind = "focus"
    /\ timers # <<>>

\* C27: in FOCUS the camera's focusedBody is the non-null selectedBody, and
\* in GLOBAL the camera's focusedBody is null.
C27_CameraAgreesWithState ==
    /\ state = FOCUS => (selectedBody # null /\ focusedBody = selectedBody)
    /\ state = GLOBAL => focusedBody = null

\* C28: a body whose perturbation the controller has enabled is the
\* selected body, in FOCUS or in a TRANSITION entered by focusOnBody.
C28_PerturbationOnlyOnSelection ==
    \A b \in Bodies :
        perturbStrength[b] = PerturbOn
            => /\ b = selectedBody
               /\ \/ state = FOCUS
                  \/ state = TRANSITION /\ lastReq.kind = "focus"

\* C29: if from some point on no request is made and the pending timers
\* fire, then from some point on state is not TRANSITION.
C29_TransitionNotTerminal ==
    /\ <>[][NoRequestMade]_vars => <>[](state # TRANSITION)
    /\ [](state = TRANSITION => timers # <<>>)

\* A stale focus callback has fired as a no-op and left TRANSITION pending.
C29_Witness ==
    /\ state = TRANSITION
    /\ Len(timers) = 1
    /\ lastReq.prevKind = "focus"
    /\ lastReq.kind = "focus"
    /\ lastReq.prevBody # lastReq.body

\* C30: controls.enabled is true exactly when isTransitioning is false;
\* mouseViewEnabled implies focusedBody non-null and isTransitioning false;
\* targetMouseInfluence changes only when mouseViewEnabled, focusedBody
\* non-null and not isTransitioning.
C30_CameraFlagsConsistent ==
    /\ [](/\ controlsEnabled <=> ~isTransitioning
          /\ mouseViewEnabled => (focusedBody # null /\ ~isTransitioning))
    /\ [][targetMouseInfluence' # targetMouseInfluence
             => /\ mouseViewEnabled /\ focusedBody # null /\ ~isTransitioning
                /\ UNCHANGED <<camVars, ctlVars>>]_vars

\* updateMouseView has stored a pointer sample for a focused body.
C30_Witness ==
    /\ mouseViewEnabled
    /\ focusedBody # null
    /\ targetMouseInfluence # <<0, 0>>
====
